---- MODULE Spec2Model ----
(***************************************************************************)
(* Model of cookie-consent.js: the consent state manager (page load,       *)
(* click handlers, consent-mode propagation, loaders) together with the    *)
(* cookie jar it persists the decision in.                                 *)
(*                                                                         *)
(* Text (a JS string) is a sequence of pieces; every piece is a string.    *)
(* Cookie names are sequences of one-character pieces, so that the         *)
(* substring tests of the scanner can be computed.                         *)
(***************************************************************************)
EXTENDS Integers, Sequences, FiniteSets, TLC

(* ------------------------------ bounds -------------------------------- *)
MaxTime == 1        \* the clock (Date.now, in ticks) runs from 0 to MaxTime
MaxLoads == 2       \* page loads (navigations) in one behaviour
MaxToggles == 1     \* category inputs the user flips in one behaviour
MaxCookies == 2     \* cookies of other scripts in the jar of a scanned page

(* ------------------------- program constants -------------------------- *)
ConsentDays == 365  \* the third argument of every setCookie call

(* --------------------------- text helpers ----------------------------- *)
Digits == <<"0", "1", "2", "3", "4", "5", "6", "7", "8", "9">>

DigitSet == {Digits[i] : i \in 1..10}

DigitValue(d) == (CHOOSE i \in 1..10 : Digits[i] = d) - 1

RECURSIVE NumToText(_)
NumToText(n) ==
    IF n < 10 THEN <<Digits[n + 1]>>
    ELSE NumToText(n \div 10) \o <<Digits[(n % 10) + 1]>>

RECURSIVE TextToNum(_)
TextToNum(s) ==
    IF s = <<>> THEN 0
    ELSE 10 * TextToNum(SubSeq(s, 1, Len(s) - 1)) + DigitValue(s[Len(s)])

\* String.prototype.indexOf for a single piece: first index, 0 when absent
IndexOf(s, x) ==
    IF \E i \in 1..Len(s) : s[i] = x
    THEN CHOOSE i \in 1..Len(s) : s[i] = x /\ \A j \in 1..(i - 1) : s[j] # x
    ELSE 0

\* String.prototype.split(sep) for a one-piece separator
RECURSIVE Split(_, _)
Split(s, sep) ==
    LET i == IndexOf(s, sep) IN
    IF i = 0 THEN <<s>>
    ELSE <<SubSeq(s, 1, i - 1)>> \o Split(SubSeq(s, i + 1, Len(s)), sep)

\* the while loop of getCookie: drop leading spaces
RECURSIVE TrimLeft(_)
TrimLeft(s) ==
    IF s # <<>> /\ Head(s) = " " THEN TrimLeft(Tail(s)) ELSE s

RECURSIVE TrimRight(_)
TrimRight(s) ==
    IF s # <<>> /\ s[Len(s)] = " " THEN TrimRight(SubSeq(s, 1, Len(s) - 1)) ELSE s

\* String.prototype.trim
Trim(s) == TrimRight(TrimLeft(s))

\* s.indexOf(p) === 0
StartsWith(s, p) == Len(s) >= Len(p) /\ SubSeq(s, 1, Len(p)) = p

\* String.prototype.includes
Includes(s, p) ==
    \E i \in 1..(Len(s) - Len(p) + 1) : SubSeq(s, i, i + Len(p) - 1) = p

(* ----------------------------- JS values ------------------------------ *)
JStr(s) == [t |-> "str", v |-> s]
JBool(b) == [t |-> "bool", v |-> b]
JNum(n) == [t |-> "num", v |-> n]
\* an object is the sequence of its <<key, value>> properties, in insertion order
JObj(props) == [t |-> "obj", v |-> props]
Undefined == [t |-> "undefined", v |-> 0]

HasKey(o, k) == o.t = "obj" /\ \E i \in 1..Len(o.v) : o.v[i][1] = k

\* property read o.k; reading a property of undefined is a TypeError,
\* which the callers test with Throws before they read
Get(o, k) ==
    IF HasKey(o, k)
    THEN o.v[CHOOSE i \in 1..Len(o.v) : o.v[i][1] = k][2]
    ELSE Undefined

\* ToBoolean
Truthy(x) ==
    CASE x.t = "bool" -> x.v
      [] x.t = "str" -> x.v # ""
      [] x.t = "num" -> x.v # 0
      [] x.t = "obj" -> TRUE
      [] OTHER -> FALSE

\* property assignment on an object under construction (JSON.parse keeps the
\* first position of a repeated key and the last value)
PutProp(props, k, val) ==
    IF \E i \in 1..Len(props) : props[i][1] = k
    THEN [i \in 1..Len(props) |-> IF props[i][1] = k THEN <<k, val>> ELSE props[i]]
    ELSE Append(props, <<k, val>>)

(* ------------------------------- JSON --------------------------------- *)
RECURSIVE Stringify(_)
RECURSIVE StringifyProps(_)
StringifyProps(props) ==
    IF props = <<>> THEN <<>>
    ELSE <<"\"", props[1][1], "\"", ":">> \o Stringify(props[1][2])
         \o (IF Len(props) > 1 THEN <<",">> \o StringifyProps(Tail(props)) ELSE <<>>)

\* JSON.stringify
Stringify(x) ==
    CASE x.t = "str" -> <<"\"", x.v, "\"">>
      [] x.t = "bool" -> IF x.v THEN <<"true">> ELSE <<"false">>
      [] x.t = "num" -> NumToText(x.v)
      [] x.t = "obj" -> <<"{">> \o StringifyProps(x.v) \o <<"}">>

ParseFail == [ok |-> FALSE, val |-> Undefined, rest |-> <<>>]

ParseOk(val, rest) == [ok |-> TRUE, val |-> val, rest |-> rest]

\* length of the longest prefix of digits
RECURSIVE DigitPrefix(_)
DigitPrefix(s) ==
    IF s # <<>> /\ Head(s) \in DigitSet THEN 1 + DigitPrefix(Tail(s)) ELSE 0

RECURSIVE ParseValue(_)
RECURSIVE ParseMembers(_, _)
ParseMembers(s, props) ==
    IF Len(s) >= 4 /\ s[1] = "\"" /\ s[3] = "\"" /\ s[4] = ":"
    THEN LET r == ParseValue(SubSeq(s, 5, Len(s))) IN
         IF ~r.ok \/ r.rest = <<>> THEN ParseFail
         ELSE IF Head(r.rest) = "}"
              THEN ParseOk(JObj(PutProp(props, s[2], r.val)), Tail(r.rest))
         ELSE IF Head(r.rest) = ","
              THEN ParseMembers(Tail(r.rest), PutProp(props, s[2], r.val))
         ELSE ParseFail
    ELSE ParseFail

ParseValue(s) ==
    IF s = <<>> THEN ParseFail
    ELSE IF Head(s) = "{"
         THEN IF Len(s) >= 2 /\ s[2] = "}"
              THEN ParseOk(JObj(<<>>), SubSeq(s, 3, Len(s)))
              ELSE ParseMembers(Tail(s), <<>>)
    ELSE IF Head(s) = "\""
         THEN IF Len(s) >= 3 /\ s[3] = "\""
              THEN ParseOk(JStr(s[2]), SubSeq(s, 4, Len(s)))
              ELSE ParseFail
    ELSE IF Head(s) = "true" THEN ParseOk(JBool(TRUE), Tail(s))
    ELSE IF Head(s) = "false" THEN ParseOk(JBool(FALSE), Tail(s))
    ELSE IF Head(s) \in DigitSet
         THEN ParseOk(JNum(TextToNum(SubSeq(s, 1, DigitPrefix(s)))),
                      SubSeq(s, DigitPrefix(s) + 1, Len(s)))
    ELSE ParseFail

\* JSON.parse throws a SyntaxError on these texts
ParseThrows(s) == LET r == ParseValue(s) IN ~r.ok \/ r.rest # <<>>

\* JSON.parse
Parse(s) == ParseValue(s).val

(* ------------------------- the cookie jar ----------------------------- *)
\* A stored cookie: its name (one piece per character), its value and the
\* tick at which it expires (Session when it has no expires attribute).
Session == -1

CookieName == <<"c", "o", "o", "k", "i", "e", "_", "c", "o", "n", "s", "e", "n", "t">>

\* the expires attribute among the attributes of an assigned cookie string
RECURSIVE ExpiresOf(_)
ExpiresOf(attrs) ==
    IF attrs = <<>> THEN Session
    ELSE LET a == Trim(Head(attrs)) IN
         IF StartsWith(a, <<"expires", "=">>)
         THEN TextToNum(SubSeq(a, 3, Len(a)))
         ELSE ExpiresOf(Tail(attrs))

\* document.cookie = text : the browser stores name=value (the text before
\* the first ";") and replaces the cookie of the same name
CookieAssign(j, text) ==
    LET parts == Split(text, ";")
        pair == parts[1]
        eq == IndexOf(pair, "=")
        name == IF eq = 0 THEN <<>> ELSE Trim(SubSeq(pair, 1, eq - 1))
        value == Trim(SubSeq(pair, eq + 1, Len(pair)))
        c == [name |-> name, value |-> value, expires |-> ExpiresOf(Tail(parts))]
    IN IF \E i \in 1..Len(j) : j[i].name = name
       THEN [i \in 1..Len(j) |-> IF j[i].name = name THEN c ELSE j[i]]
       ELSE Append(j, c)

\* the cookies the browser still holds at tick t
RECURSIVE Live(_, _)
Live(j, t) ==
    IF j = <<>> THEN <<>>
    ELSE (IF Head(j).expires = Session \/ Head(j).expires > t THEN <<Head(j)>> ELSE <<>>)
         \o Live(Tail(j), t)

RECURSIVE JoinCookies(_)
JoinCookies(j) ==
    IF j = <<>> THEN <<>>
    ELSE Head(j).name \o <<"=">> \o Head(j).value
         \o (IF Len(j) > 1 THEN <<";", " ">> \o JoinCookies(Tail(j)) ELSE <<>>)

\* reading document.cookie at tick t
DocumentCookie(j, t) == JoinCookies(Live(j, t))

\* setCookie(name, value, days) called at tick t; the clock ticks in days
setCookie(j, name, value, days, t) ==
    LET expires == IF days # 0
                   THEN <<";", " ", "expires", "=">> \o NumToText(t + days)
                   ELSE <<>>
    IN CookieAssign(j, name \o <<"=">> \o value \o expires
                       \o <<";", " ", "path", "=", "/", ";", " ",
                            "SameSite", "=", "Lax", ";", " ", "Secure">>)

Null == <<"null">>

\* mutant: the value is cut one piece early and keeps the "=" of nameEQ
RECURSIVE FirstMatch_KeepsEquals(_, _)
FirstMatch_KeepsEquals(ca, nameEQ) ==
    IF ca = <<>> THEN Null
    ELSE LET c == TrimLeft(Head(ca)) IN
         IF StartsWith(c, nameEQ) THEN SubSeq(c, Len(nameEQ), Len(c))
         ELSE FirstMatch_KeepsEquals(Tail(ca), nameEQ)

RECURSIVE FirstMatch(_, _)
FirstMatch(ca, nameEQ) ==
    IF ca = <<>> THEN Null
    ELSE LET c == TrimLeft(Head(ca)) IN
         IF StartsWith(c, nameEQ) THEN SubSeq(c, Len(nameEQ) + 1, Len(c))
         ELSE FirstMatch(Tail(ca), nameEQ)

\* getCookie(name) at tick t: the value text, or Null
getCookie(j, name, t) ==
    FirstMatch(Split(DocumentCookie(j, t), ";"), name \o <<"=">>)

\* !x for the result of getCookie: null and the empty string are falsy
Falsy(x) == x = Null \/ x = <<>>

(* ------------------------ pattern database ---------------------------- *)
Categories == <<"functional", "analytics", "performance", "advertising", "uncategorized">>

CategorySet == {Categories[i] : i \in 1..Len(Categories)}

\* cookieDatabase, in insertion order: <<pattern, category>>
cookieDatabase ==
    <<
       <<<<"_", "g", "a">>, "analytics">>,
       <<<<"_", "g", "i", "d">>, "analytics">>,
       <<<<"_", "g", "a", "t">>, "analytics">>,
       <<<<"_", "g", "a", "_">>, "analytics">>,
       <<<<"_", "d", "c", "_", "g", "t", "m", "_">>, "analytics">>,
       <<<<"_", "g", "a", "c", "_">>, "analytics">>,
       <<<<"_", "f", "b", "p">>, "advertising">>,
       <<<<"f", "r">>, "advertising">>,
       <<<<"x", "s">>, "advertising">>,
       <<<<"s", "b">>, "advertising">>,
       <<<<"d", "a", "t", "r">>, "advertising">>,
       <<<<"w", "o", "r", "d", "p", "r", "e", "s", "s", "_">>, "functional">>,
       <<<<"w", "p", "-", "s", "e", "t", "t", "i", "n", "g", "s">>, "functional">>,
       <<<<"P", "H", "P", "S", "E", "S", "S", "I", "D">>, "functional">>,
       <<<<"w", "o", "r", "d", "p", "r", "e", "s", "s", "_", "l", "o", "g", "g", "e", "d", "_", "i", "n">>, "functional">>,
       <<<<"w", "o", "r", "d", "p", "r", "e", "s", "s", "_", "t", "e", "s", "t", "_", "c", "o", "o", "k", "i", "e">>, "functional">>,
       <<<<"w", "p", "-", "s", "a", "v", "i", "n", "g", "-", "p", "o", "s", "t">>, "functional">>,
       <<<<"_", "_", "u", "t", "m", "a">>, "performance">>,
       <<<<"_", "_", "u", "t", "m", "b">>, "performance">>,
       <<<<"_", "_", "u", "t", "m", "c">>, "performance">>,
       <<<<"_", "_", "u", "t", "m", "t">>, "performance">>,
       <<<<"_", "_", "u", "t", "m", "z">>, "performance">>,
       <<<<"_", "_", "u", "t", "m", "v">>, "performance">>,
       <<<<"_", "h", "j">>, "performance">>,
       <<<<"_", "g", "c", "l", "_", "a", "u">>, "advertising">>,
       <<<<"_", "g", "c", "l", "_", "a", "w">>, "advertising">>,
       <<<<"_", "g", "c", "l", "_", "d", "c">>, "advertising">>,
       <<<<"I", "D", "E">>, "advertising">>,
       <<<<"t", "e", "s", "t", "_", "c", "o", "o", "k", "i", "e">>, "advertising">>,
       <<<<"N", "I", "D">>, "advertising">>
    >>

\* mutant: the loop does not break, the last pattern included in the name wins
RECURSIVE MatchFrom_LastWins(_, _)
MatchFrom_LastWins(name, i) ==
    IF i > Len(cookieDatabase) THEN ""
    ELSE LET rest == MatchFrom_LastWins(name, i + 1) IN
         IF rest # "" THEN rest
         ELSE IF Includes(name, cookieDatabase[i][1]) THEN cookieDatabase[i][2]
         ELSE ""

\* the for...in loop of scanAndCategorizeCookies from pattern i on: the
\* category of the first pattern included in the name, "" when none is
RECURSIVE MatchFrom(_, _)
MatchFrom(name, i) ==
    IF i > Len(cookieDatabase) THEN ""
    ELSE IF Includes(name, cookieDatabase[i][1]) THEN cookieDatabase[i][2]
    ELSE MatchFrom(name, i + 1)

\* the category a scanned name is filed under; "" when the entry is skipped
Classify(name) ==
    LET c == MatchFrom(name, 1) IN
    IF c # "" THEN c
    ELSE IF name # <<>> THEN "uncategorized"
    ELSE ""

EmptySnapshot == [c \in CategorySet |-> <<>>]

\* mutant: a name already filed under its category is not filed again
RECURSIVE ScanFrom_Dedup(_, _)
ScanFrom_Dedup(cookies, result) ==
    IF cookies = <<>> THEN result
    ELSE LET name == Split(Trim(Head(cookies)), "=")[1]
             c == Classify(name)
         IN ScanFrom_Dedup(Tail(cookies),
                     IF c = "" \/ (\E i \in 1..Len(result[c]) : result[c][i] = name)
                     THEN result
                     ELSE [result EXCEPT ![c] = Append(@, name)])

RECURSIVE ScanFrom(_, _)
ScanFrom(cookies, result) ==
    IF cookies = <<>> THEN result
    ELSE LET name == Split(Trim(Head(cookies)), "=")[1]
             c == Classify(name)
         IN ScanFrom(Tail(cookies),
                     IF c = "" THEN result
                     ELSE [result EXCEPT ![c] = Append(@, name)])

\* scanAndCategorizeCookies() at tick t: per category, the names found
scanAndCategorizeCookies(j, t) ==
    ScanFrom(Split(DocumentCookie(j, t), ";"), EmptySnapshot)

(* ------------------------------ state --------------------------------- *)
\* Two page instances (browser tabs) of the same site share one cookie jar.
Tabs == {"tabA", "tabB"}

VARIABLES
    jar,        \* the browser's cookie jar for the site
    now,        \* the clock, in ticks
    loads,      \* number of navigations so far
    page,       \* per tab: "closed", "loading", "ready" or "failed"
    dataLayer,  \* per tab: window.dataLayer
    banner,     \* per tab: style.display of #cookieConsentBanner
    modal,      \* per tab: style.display of #cookieSettingsModal
    checked,    \* per tab: .checked of the category inputs
    detected,   \* per tab: the snapshot of scanAndCategorizeCookies
    console,    \* per tab: the loader lines written to the console
    fbq,        \* per tab: window.fbq
    toggles,    \* number of inputs flipped by the user so far
    written,    \* the consentData object of the latest setCookie call
    last        \* the operation of the latest step and its tab

vars == <<jar, now, loads, page, dataLayer, banner, modal, checked, detected,
          console, fbq, toggles, written, last>>

(* ------------------------ consent propagation ------------------------- *)
GrantedIf(x) == IF Truthy(x) THEN "granted" ELSE "denied"

\* mutant: the default record grants analytics_storage
DefaultConsent_AnalyticsGranted ==
    [ad_storage |-> "denied", analytics_storage |-> "granted",
     ad_user_data |-> "denied", ad_personalization |-> "denied",
     personalization_storage |-> "denied",
     functionality_storage |-> "granted", security_storage |-> "granted"]

\* the argument of gtag('consent', 'default', ...)
DefaultConsent ==
    [ad_storage |-> "denied", analytics_storage |-> "denied",
     ad_user_data |-> "denied", ad_personalization |-> "denied",
     personalization_storage |-> "denied",
     functionality_storage |-> "granted", security_storage |-> "granted"]

\* function gtag() { dataLayer.push(arguments); }
gtag(dl, args) == Append(dl, [kind |-> "gtag", args |-> args])

\* Date.prototype.toISOString
toISOString(t) == NumToText(t) \o <<"Z">>

\* reading consentData.categories.<x> throws a TypeError when
\* consentData.categories is undefined
CategoriesThrow(consentData) == Get(consentData, "categories").t = "undefined"

\* mutant: ad_personalization follows the uncategorized category
consentStatesOf_Uncategorized(consentData) ==
    LET cats == Get(consentData, "categories") IN
    [ad_storage |-> GrantedIf(Get(cats, "advertising")),
     analytics_storage |-> GrantedIf(Get(cats, "analytics")),
     ad_user_data |-> GrantedIf(Get(cats, "advertising")),
     ad_personalization |-> GrantedIf(Get(cats, "uncategorized")),
     personalization_storage |-> GrantedIf(Get(cats, "performance")),
     functionality_storage |-> "granted", security_storage |-> "granted"]

consentStatesOf(consentData) ==
    LET cats == Get(consentData, "categories") IN
    [ad_storage |-> GrantedIf(Get(cats, "advertising")),
     analytics_storage |-> GrantedIf(Get(cats, "analytics")),
     ad_user_data |-> GrantedIf(Get(cats, "advertising")),
     ad_personalization |-> GrantedIf(Get(cats, "advertising")),
     personalization_storage |-> GrantedIf(Get(cats, "performance")),
     functionality_storage |-> "granted", security_storage |-> "granted"]

\* the === comparison of two JS values
StrictEq(a, b) == a.t = b.t /\ a.v = b.v

\* mutant: the custom status is not told apart from the default
gcsSignalOf_NoCustom(consentData) ==
    IF StrictEq(Get(consentData, "status"), JStr("accepted")) THEN "G111"
    ELSE "G100"

gcsSignalOf(consentData) ==
    IF StrictEq(Get(consentData, "status"), JStr("accepted")) THEN "G111"
    ELSE IF StrictEq(Get(consentData, "status"), JStr("custom")) THEN "G101"
    ELSE "G100"

\* mutant: the update is skipped when the map equals the one pushed last
updateConsentMode_Diffing(w, consentData, t) ==
    LET consentStates == consentStatesOf(consentData)
        lastCall == w.dataLayer[Len(w.dataLayer)]
        dl == gtag(w.dataLayer, <<"consent", "update", consentStates>>)
    IN IF lastCall.kind = "gtag" /\ lastCall.args[1] = "consent"
          /\ lastCall.args[3] = consentStates
       THEN w
       ELSE [w EXCEPT !.dataLayer =
                Append(dl, [kind |-> "event", event |-> "cookie_consent_update",
                            consent_mode |-> consentStates,
                            gcs |-> gcsSignalOf(consentData),
                            timestamp |-> toISOString(t)])]

\* updateConsentMode(consentData) at tick t, on the window state w =
\* [dataLayer, console, fbq]
updateConsentMode(w, consentData, t) ==
    LET consentStates == consentStatesOf(consentData)
        dl == gtag(w.dataLayer, <<"consent", "update", consentStates>>)
    IN [w EXCEPT !.dataLayer =
            Append(dl, [kind |-> "event", event |-> "cookie_consent_update",
                        consent_mode |-> consentStates,
                        gcs |-> gcsSignalOf(consentData),
                        timestamp |-> toISOString(t)])]

\* typeof ga === 'undefined': nothing in the script defines the global ga
gaUndefined == TRUE

loadAnalyticsCookies(w, t) ==
    LET logged == [w EXCEPT !.console = Append(@, "Loading analytics cookies")] IN
    IF gaUndefined
    THEN [logged EXCEPT !.dataLayer =
            gtag(gtag(@, <<"js", t>>), <<"config", "YOUR_GA4_MEASUREMENT_ID">>)]
    ELSE logged

loadAdvertisingCookies(w) ==
    LET logged == [w EXCEPT !.console = Append(@, "Loading advertising cookies")] IN
    IF ~w.fbq.defined
    THEN [logged EXCEPT !.fbq = [defined |-> TRUE,
                                 queue |-> << <<"init", "YOUR_PIXEL_ID">>,
                                              <<"track", "PageView">> >>]]
    ELSE logged

loadPerformanceCookies(w) ==
    [w EXCEPT !.console = Append(@, "Loading performance cookies")]

\* mutant: the loaders run only for a decision made at this very tick
loadCookies_FreshOnly(w, consentData, t) ==
    LET cats == Get(consentData, "categories")
        w1 == IF Truthy(Get(cats, "analytics")) THEN loadAnalyticsCookies(w, t) ELSE w
        w2 == IF Truthy(Get(cats, "advertising")) THEN loadAdvertisingCookies(w1) ELSE w1
        w3 == IF Truthy(Get(cats, "performance")) THEN loadPerformanceCookies(w2) ELSE w2
    IN IF StrictEq(Get(consentData, "timestamp"), JNum(t)) THEN w3 ELSE w

\* mutant: the analytics loader runs without looking at the decision
loadCookies_Unconditional(w, consentData, t) ==
    LET cats == Get(consentData, "categories")
        w1 == loadAnalyticsCookies(w, t)
        w2 == IF Truthy(Get(cats, "advertising")) THEN loadAdvertisingCookies(w1) ELSE w1
    IN IF Truthy(Get(cats, "performance")) THEN loadPerformanceCookies(w2) ELSE w2

loadCookiesAccordingToConsent(w, consentData, t) ==
    LET cats == Get(consentData, "categories")
        w1 == IF Truthy(Get(cats, "analytics")) THEN loadAnalyticsCookies(w, t) ELSE w
        w2 == IF Truthy(Get(cats, "advertising")) THEN loadAdvertisingCookies(w1) ELSE w1
    IN IF Truthy(Get(cats, "performance")) THEN loadPerformanceCookies(w2) ELSE w2

(* --------------------------- the decisions ---------------------------- *)
\* mutant: Accept All leaves the uncategorized category out
AcceptData_NoUncategorized(t) ==
    JObj(<< <<"status", JStr("accepted")>>, <<"gcs", JStr("G111")>>,
            <<"categories", JObj(<< <<"functional", JBool(TRUE)>>,
                                    <<"analytics", JBool(TRUE)>>,
                                    <<"performance", JBool(TRUE)>>,
                                    <<"advertising", JBool(TRUE)>>,
                                    <<"uncategorized", JBool(FALSE)>> >>)>>,
            <<"timestamp", JNum(t)>> >>)

\* the consentData literal of acceptAllCookies
AcceptData(t) ==
    JObj(<< <<"status", JStr("accepted")>>, <<"gcs", JStr("G111")>>,
            <<"categories", JObj(<< <<"functional", JBool(TRUE)>>,
                                    <<"analytics", JBool(TRUE)>>,
                                    <<"performance", JBool(TRUE)>>,
                                    <<"advertising", JBool(TRUE)>>,
                                    <<"uncategorized", JBool(TRUE)>> >>)>>,
            <<"timestamp", JNum(t)>> >>)

\* mutant: Reject All merges into the persisted decision: a category stays
\* granted when the persisted decision grants it
RejectData_Merged(t) ==
    LET text == getCookie(jar, CookieName, t)
        old == Get(Parse(text), "categories")
        keep(c) == ~Falsy(text) /\ ~ParseThrows(text) /\ Truthy(Get(old, c))
    IN JObj(<< <<"status", JStr("rejected")>>, <<"gcs", JStr("G100")>>,
               <<"categories", JObj(<< <<"functional", JBool(TRUE)>>,
                                       <<"analytics", JBool(keep("analytics"))>>,
                                       <<"performance", JBool(keep("performance"))>>,
                                       <<"advertising", JBool(keep("advertising"))>>,
                                       <<"uncategorized", JBool(keep("uncategorized"))>> >>)>>,
               <<"timestamp", JNum(t)>> >>)

\* the consentData literal of rejectAllCookies
RejectData(t) ==
    JObj(<< <<"status", JStr("rejected")>>, <<"gcs", JStr("G100")>>,
            <<"categories", JObj(<< <<"functional", JBool(TRUE)>>,
                                    <<"analytics", JBool(FALSE)>>,
                                    <<"performance", JBool(FALSE)>>,
                                    <<"advertising", JBool(FALSE)>>,
                                    <<"uncategorized", JBool(FALSE)>> >>)>>,
            <<"timestamp", JNum(t)>> >>)

\* document.querySelector('input[data-category="uncategorized"]') finds an
\* element: the row is rendered only when the scan found such cookies
HasUncategorizedInput(snapshot) == Len(snapshot["uncategorized"]) > 0

\* mutant: Save reads the performance and the advertising input crosswise
CustomData_Swapped(inputs, snapshot, t) ==
    JObj(<< <<"status", JStr("custom")>>, <<"gcs", JStr("G101")>>,
            <<"categories", JObj(<< <<"functional", JBool(TRUE)>>,
                                    <<"analytics", JBool(inputs["analytics"])>>,
                                    <<"performance", JBool(inputs["advertising"])>>,
                                    <<"advertising", JBool(inputs["performance"])>>,
                                    <<"uncategorized",
                                      JBool(IF HasUncategorizedInput(snapshot)
                                            THEN inputs["uncategorized"]
                                            ELSE FALSE)>> >>)>>,
            <<"timestamp", JNum(t)>> >>)

\* the consentData literal of saveCustomSettings, read from the inputs
CustomData(inputs, snapshot, t) ==
    JObj(<< <<"status", JStr("custom")>>, <<"gcs", JStr("G101")>>,
            <<"categories", JObj(<< <<"functional", JBool(TRUE)>>,
                                    <<"analytics", JBool(inputs["analytics"])>>,
                                    <<"performance", JBool(inputs["performance"])>>,
                                    <<"advertising", JBool(inputs["advertising"])>>,
                                    <<"uncategorized",
                                      JBool(IF HasUncategorizedInput(snapshot)
                                            THEN inputs["uncategorized"]
                                            ELSE FALSE)>> >>)>>,
            <<"timestamp", JNum(t)>> >>)

Window(t) == [dataLayer |-> dataLayer[t], console |-> console[t], fbq |-> fbq[t]]

\* the window state w becomes the state of tab t
SetWindow(t, w) ==
    /\ dataLayer' = [dataLayer EXCEPT ![t] = w.dataLayer]
    /\ console' = [console EXCEPT ![t] = w.console]
    /\ fbq' = [fbq EXCEPT ![t] = w.fbq]

acceptAllCookies(t, clock) ==
    LET consentData == AcceptData(clock) IN
    /\ jar' = setCookie(jar, CookieName, Stringify(consentData), ConsentDays, clock)
    /\ written' = consentData
    /\ SetWindow(t, loadCookiesAccordingToConsent(
                        updateConsentMode(Window(t), consentData, clock),
                        consentData, clock))

\* mutant: Reject All signals the decision and does not persist it
rejectAllCookies_NoPersist(t, clock) ==
    LET consentData == RejectData(clock) IN
    /\ jar' = jar
    /\ written' = consentData
    /\ SetWindow(t, updateConsentMode(Window(t), consentData, clock))

rejectAllCookies(t, clock) ==
    LET consentData == RejectData(clock) IN
    /\ jar' = setCookie(jar, CookieName, Stringify(consentData), ConsentDays, clock)
    /\ written' = consentData
    /\ SetWindow(t, updateConsentMode(Window(t), consentData, clock))

saveCustomSettings(t, clock) ==
    LET consentData == CustomData(checked[t], detected[t], clock) IN
    /\ jar' = setCookie(jar, CookieName, Stringify(consentData), ConsentDays, clock)
    /\ written' = consentData
    /\ SetWindow(t, loadCookiesAccordingToConsent(
                        updateConsentMode(Window(t), consentData, clock),
                        consentData, clock))

(* ------------------------------- the UI ------------------------------- *)
\* style.display values: "" is the value before any show/hide call, which
\* leaves the surface to the style sheet (hidden); "block" shows it
Visible(display) == display = "block"

showCookieBanner(t) == banner' = [banner EXCEPT ![t] = "block"]

\* mutant: hiding the banner leaves its display as it is
hideCookieBanner_Keeps(t) == banner' = banner

hideCookieBanner(t) == banner' = [banner EXCEPT ![t] = "none"]

hideCookieSettings(t) == modal' = [modal EXCEPT ![t] = "none"]

\* the inputs as injectConsentHTML renders them: functional checked (and
\* disabled), the others unchecked
RenderedInputs == [c \in CategorySet |-> c = "functional"]

\* mutant: the functional input is rendered without the disabled attribute
Disabled_Never(c) == FALSE

\* the disabled attribute of the functional input
Disabled(c) == c = "functional"

\* the inputs after showCookieSettings has loaded the current settings
LoadedInputs(inputs, snapshot, consentData) ==
    LET cats == Get(consentData, "categories") IN
    [c \in CategorySet |->
        IF c \in {"analytics", "performance", "advertising"}
           \/ (c = "uncategorized" /\ HasUncategorizedInput(snapshot))
        THEN Truthy(Get(cats, c))
        ELSE inputs[c]]

showCookieSettings(t, clock) ==
    LET consent == getCookie(jar, CookieName, clock) IN
    /\ modal' = [modal EXCEPT ![t] = "block"]
    /\ hideCookieBanner(t)
    /\ IF Falsy(consent) THEN UNCHANGED checked
       ELSE IF ParseThrows(consent) \/ CategoriesThrow(Parse(consent))
            THEN UNCHANGED checked
       ELSE checked' = [checked EXCEPT ![t] =
                            LoadedInputs(checked[t], detected[t], Parse(consent))]

(* ------------------------------ actions ------------------------------- *)
\* the clock readings a handler that starts now may get: time may have
\* passed since the previous step
Later == {c \in now..(now + 1) : c <= MaxTime}

Did(op, t) == last' = [op |-> op, tab |-> t]

\* the page is opened or reloaded in tab t: the script runs its top level
\* (dataLayer created, default consent pushed); the elements do not exist yet
Navigate(t) ==
    /\ loads < MaxLoads
    /\ t = "tabB" => page["tabA"] # "closed"    \* tabs are opened in order
    /\ loads' = loads + 1
    /\ page' = [page EXCEPT ![t] = "loading"]
    /\ dataLayer' = [dataLayer EXCEPT ![t] =
                        gtag(<<>>, <<"consent", "default", DefaultConsent>>)]
    /\ banner' = [banner EXCEPT ![t] = ""]
    /\ modal' = [modal EXCEPT ![t] = ""]
    /\ checked' = [checked EXCEPT ![t] = RenderedInputs]
    /\ detected' = [detected EXCEPT ![t] = EmptySnapshot]
    /\ console' = [console EXCEPT ![t] = <<>>]
    /\ fbq' = [fbq EXCEPT ![t] = [defined |-> FALSE, queue |-> <<>>]]
    /\ Did("navigate", t)
    /\ UNCHANGED <<toggles, written, jar, now>>

\* the DOMContentLoaded listener: scan, inject, initializeCookieConsent.
\* An exception of initializeCookieConsent leaves the listeners unwired.
DOMContentLoaded(t) ==
    /\ page[t] = "loading"
    /\ \E clock \in Later :
        LET consentGiven == getCookie(jar, CookieName, clock) IN
        /\ now' = clock
        /\ detected' = [detected EXCEPT ![t] = scanAndCategorizeCookies(jar, clock)]
        /\ checked' = [checked EXCEPT ![t] = RenderedInputs]
        /\ IF Falsy(consentGiven)
           THEN /\ showCookieBanner(t)
                /\ page' = [page EXCEPT ![t] = "ready"]
                /\ UNCHANGED <<dataLayer, console, fbq>>
           ELSE IF ParseThrows(consentGiven) \/ CategoriesThrow(Parse(consentGiven))
                THEN /\ page' = [page EXCEPT ![t] = "failed"]
                     /\ UNCHANGED <<banner, dataLayer, console, fbq>>
           ELSE /\ SetWindow(t, loadCookiesAccordingToConsent(
                                    updateConsentMode(Window(t), Parse(consentGiven), clock),
                                    Parse(consentGiven), clock))
                /\ page' = [page EXCEPT ![t] = "ready"]
                /\ UNCHANGED banner
    /\ Did("load", t)
    /\ UNCHANGED <<toggles, written, jar, loads, modal>>

\* #acceptAllBtn
AcceptAllBtn(t) ==
    /\ page[t] = "ready" /\ Visible(banner[t])
    /\ \E clock \in Later : now' = clock /\ acceptAllCookies(t, clock)
    /\ hideCookieBanner(t)
    /\ Did("acceptAll", t)
    /\ UNCHANGED <<toggles, loads, page, modal, checked, detected>>

\* #rejectAllBtn
RejectAllBtn(t) ==
    /\ page[t] = "ready" /\ Visible(banner[t])
    /\ \E clock \in Later : now' = clock /\ rejectAllCookies(t, clock)
    /\ hideCookieBanner(t)
    /\ Did("rejectAll", t)
    /\ UNCHANGED <<toggles, loads, page, modal, checked, detected>>

\* #adjustConsentBtn (Customize)
AdjustConsentBtn(t) ==
    /\ page[t] = "ready" /\ Visible(banner[t])
    /\ \E clock \in Later : now' = clock /\ showCookieSettings(t, clock)
    /\ Did("customize", t)
    /\ UNCHANGED <<toggles, written, jar, loads, page, dataLayer, detected, console, fbq>>

\* #acceptAllSettingsBtn
AcceptAllSettingsBtn(t) ==
    /\ page[t] = "ready" /\ Visible(modal[t])
    /\ \E clock \in Later : now' = clock /\ acceptAllCookies(t, clock)
    /\ hideCookieSettings(t)
    /\ Did("acceptAllSettings", t)
    /\ UNCHANGED <<toggles, loads, page, banner, checked, detected>>

\* #rejectAllSettingsBtn
RejectAllSettingsBtn(t) ==
    /\ page[t] = "ready" /\ Visible(modal[t])
    /\ \E clock \in Later : now' = clock /\ rejectAllCookies(t, clock)
    /\ hideCookieSettings(t)
    /\ Did("rejectAllSettings", t)
    /\ UNCHANGED <<toggles, loads, page, banner, checked, detected>>

\* #saveSettingsBtn
SaveSettingsBtn(t) ==
    /\ page[t] = "ready" /\ Visible(modal[t])
    /\ \E clock \in Later : now' = clock /\ saveCustomSettings(t, clock)
    /\ hideCookieSettings(t)
    /\ Did("save", t)
    /\ UNCHANGED <<toggles, loads, page, banner, checked, detected>>

\* mutant: closing the panel records a rejection
CloseModal_Rejects(t) ==
    /\ page[t] = "ready" /\ Visible(modal[t])
    /\ rejectAllCookies(t, now)
    /\ hideCookieSettings(t)
    /\ showCookieBanner(t)
    /\ Did("close", t)
    /\ UNCHANGED <<toggles, now, loads, page, checked, detected>>

\* .close-modal
CloseModal(t) ==
    /\ page[t] = "ready" /\ Visible(modal[t])
    /\ hideCookieSettings(t)
    /\ showCookieBanner(t)
    /\ Did("close", t)
    /\ UNCHANGED <<toggles, written, jar, now, loads, page, dataLayer, checked, detected, console, fbq>>

\* the user flips an enabled category input of the settings panel
Toggle(t, c) ==
    /\ page[t] = "ready" /\ Visible(modal[t])
    /\ toggles < MaxToggles
    /\ toggles' = toggles + 1
    /\ ~Disabled(c)
    /\ c = "uncategorized" => HasUncategorizedInput(detected[t])
    /\ checked' = [checked EXCEPT ![t][c] = ~@]
    /\ Did("toggle", t)
    /\ UNCHANGED <<jar, now, loads, page, dataLayer, banner, modal, detected,
                   console, fbq, written>>

(* --------------------------- initial states --------------------------- *)
Cookie(name, value) == [name |-> name, value |-> value, expires |-> Session]

\* cookies of other scripts of the site that the jar holds beforehand
OtherCookies ==
    { <<Cookie(<<"_", "g", "a">>, <<"GA1">>)>> }

\* a cookie_consent cookie that this script did not write: none, an empty
\* value, or values that are not a serialized decision
ForeignConsent ==
    { <<>>,
      <<Cookie(CookieName, <<>>)>>,
      <<Cookie(CookieName, <<"yes">>)>>,
      <<Cookie(CookieName, <<"{", "}">>)>> }

Init ==
    /\ jar \in {o \o f : o \in OtherCookies, f \in ForeignConsent}
    /\ now = 0
    /\ loads = 0
    /\ page = [t \in Tabs |-> "closed"]
    /\ dataLayer = [t \in Tabs |-> <<>>]
    /\ banner = [t \in Tabs |-> ""]
    /\ modal = [t \in Tabs |-> ""]
    /\ checked = [t \in Tabs |-> RenderedInputs]
    /\ detected = [t \in Tabs |-> EmptySnapshot]
    /\ console = [t \in Tabs |-> <<>>]
    /\ fbq = [t \in Tabs |-> [defined |-> FALSE, queue |-> <<>>]]
    /\ toggles = 0
    /\ written = Undefined
    /\ last = [op |-> "init", tab |-> ""]

Next ==
    \/ \E t \in Tabs :
        \/ Navigate(t)
        \/ DOMContentLoaded(t)
        \/ AcceptAllBtn(t)
        \/ RejectAllBtn(t)
        \/ AdjustConsentBtn(t)
        \/ AcceptAllSettingsBtn(t)
        \/ RejectAllSettingsBtn(t)
        \/ SaveSettingsBtn(t)
        \/ CloseModal(t)
        \/ \E c \in CategorySet : Toggle(t, c)

Spec == Init /\ [][Next]_vars

(* ---------------------------- observations ---------------------------- *)
\* what getCookie('cookie_consent') returns in jar j at tick t
PersistedTextIn(j, t) == getCookie(j, CookieName, t)

PersistedText == PersistedTextIn(jar, now)

\* a text that JSON.parse turns into an object whose categories can be read
WellFormed(text) == ~ParseThrows(text) /\ ~CategoriesThrow(Parse(text))

\* a decision is persisted: the cookie is there, not empty, and well formed
DecisionIn(j, t) == ~Falsy(PersistedTextIn(j, t)) /\ WellFormed(PersistedTextIn(j, t))

Persisted == Parse(PersistedText)

\* the decision a cookie text holds, Undefined when it holds none (absent,
\* empty or not well formed): the text is parsed once
DecisionOfText(text) ==
    LET r == IF Falsy(text) THEN ParseFail ELSE ParseValue(text)
    IN IF r.ok /\ r.rest = <<>> /\ ~CategoriesThrow(r.val) THEN r.val ELSE Undefined

\* the decision persisted in the jar, Undefined when none is
PersistedDecision == LET text == PersistedText IN DecisionOfText(text)

\* after the step the jar holds decision d
PersistsNow(d) == \A text \in {PersistedTextIn(jar', now')} : DecisionOfText(text) = d

Granted(decision, c) == Truthy(Get(Get(decision, "categories"), c))

DecisionOps == {"acceptAll", "rejectAll", "acceptAllSettings", "rejectAllSettings", "save"}

AcceptOps == {"acceptAll", "acceptAllSettings"}

RejectOps == {"rejectAll", "rejectAllSettings"}

\* the operations that enter Decided: a decision click, or a page load that
\* applies a persisted decision
DecidedOps == DecisionOps \cup {"load"}

StatusOfOp(op) ==
    IF op \in AcceptOps THEN "accepted"
    ELSE IF op \in RejectOps THEN "rejected"
    ELSE "custom"

Statuses == {"accepted", "rejected", "custom"}

\* the signal code the specification gives to a status
signalFor(status) ==
    CASE status = "accepted" -> "G111"
      [] status = "rejected" -> "G100"
      [] status = "custom" -> "G101"

GrantWord(b) == IF b THEN "granted" ELSE "denied"

\* the consent map the specification derives from a decision's categories
ResolvedMap(decision) ==
    [ad_storage |-> GrantWord(Granted(decision, "advertising")),
     analytics_storage |-> GrantWord(Granted(decision, "analytics")),
     ad_user_data |-> GrantWord(Granted(decision, "advertising")),
     ad_personalization |-> GrantWord(Granted(decision, "advertising")),
     personalization_storage |-> GrantWord(Granted(decision, "performance")),
     functionality_storage |-> "granted", security_storage |-> "granted"]

IsEvent(e) == e.kind = "event"

IsConsentCall(e, mode) ==
    e.kind = "gtag" /\ Len(e.args) = 3 /\ e.args[1] = "consent" /\ e.args[2] = mode

\* the cookie_consent_update events of a queue, in order
Events(dl) == SelectSeq(dl, IsEvent)

NonEssential == CategorySet \ {"functional"}

\* the categories a loader routine exists for
LoaderCategories == {"analytics", "advertising", "performance"}

\* the console line a loader of category c writes when it is invoked
LoaderLine(c) == "Loading " \o c \o " cookies"

Range(s) == {s[i] : i \in 1..Len(s)}

(* ------------------------------- claims ------------------------------- *)
\* C1: every decision click (Accept All or Reject All in the banner or in
\* the settings panel, Save Preferences) persists the decision it builds in
\* the cookie_consent cookie and appends, in that same step, the consent
\* update and the cookie_consent_update event carrying the resolved map and
\* the signal code to the tab's dataLayer; nothing is suppressed when the
\* decision equals the one already persisted.
C1_DecisionPersistedAndSignalled ==
    [][\A t \in Tabs :
        (last'.tab = t /\ last'.op \in DecisionOps) =>
            LET n == Len(dataLayer[t])
                d == written'
                status == StatusOfOp(last'.op)
                q == dataLayer'[t]
            IN /\ PersistsNow(d)
               /\ StrictEq(Get(d, "status"), JStr(status))
               /\ StrictEq(Get(d, "timestamp"), JNum(now'))
               /\ Len(q) >= n + 2
               /\ SubSeq(q, 1, n) = dataLayer[t]
               /\ IsConsentCall(q[n + 1], "update")
               /\ q[n + 1].args[3] = ResolvedMap(d)
               /\ IsEvent(q[n + 2])
               /\ q[n + 2].event = "cookie_consent_update"
               /\ q[n + 2].consent_mode = ResolvedMap(d)
               /\ q[n + 2].gcs = signalFor(status)
               /\ q[n + 2].timestamp = toISOString(now')
    ]_vars

\* C1 witness: tab B has just clicked Reject All while tab A's own Reject All
\* of the same tick had already persisted an equal decision, and tab B's
\* queue ends with the same event as tab A's.
C1_Witness ==
    /\ last = [op |-> "rejectAll", tab |-> "tabB"]
    /\ banner["tabA"] = "none" /\ modal["tabA"] = ""
    /\ Len(Events(dataLayer["tabA"])) = 1
    /\ Len(Events(dataLayer["tabB"])) = 1
    /\ Events(dataLayer["tabA"])[1].gcs = "G100"
    /\ Events(dataLayer["tabA"]) = Events(dataLayer["tabB"])
    /\ Persisted = RejectData(now)

\* the loader lines a step appends to the console of tab t
NewLoaderLines(t) == SubSeq(console'[t], Len(console[t]) + 1, Len(console'[t]))

\* the decision a step applies in tab t: Undefined unless the step is a
\* transition into Decided of tab t
StepDecision(t) ==
    IF last'.tab = t /\ last'.op \in DecidedOps /\ page'[t] = "ready"
    THEN DecisionOfText(PersistedTextIn(jar', now'))
    ELSE Undefined

\* loaders run only in a transition into Decided and only for granted
\* categories; in a transition into Decided every granted category of cats
\* has its loader invoked
LoaderStep(cats) ==
    \A t \in Tabs :
        IF last'.tab = t /\ last'.op = "navigate" THEN console'[t] = <<>>
        ELSE /\ Len(console'[t]) >= Len(console[t])
             /\ SubSeq(console'[t], 1, Len(console[t])) = console[t]
             /\ \A d \in {StepDecision(t)} :
                  IF d.t # "obj" THEN NewLoaderLines(t) = <<>>
                  ELSE /\ Range(NewLoaderLines(t)) \subseteq
                            {LoaderLine(c) : c \in {x \in NonEssential : Granted(d, x)}}
                       /\ \A c \in cats :
                            Granted(d, c) => LoaderLine(c) \in Range(NewLoaderLines(t))

\* C2 as stated: a loader runs only for a category the applied decision
\* grants and only in a transition into Decided (never while no decision
\* exists, never on Customize or close), and every transition into Decided
\* invokes the loader of each non-essential category the decision grants.
C2_LoaderForEveryNonEssential == [][LoaderStep(NonEssential)]_vars

\* C2 amended: the same, where the loaders invoked are those of analytics,
\* advertising and performance; no loader exists for uncategorized.
C2_LoaderForGrantedCategories == [][LoaderStep(LoaderCategories)]_vars

\* C2 witness: a Save that granted exactly one category has run exactly
\* that category's loader.
C2_Witness ==
    \E t \in Tabs :
        /\ last = [op |-> "save", tab |-> t]
        /\ Granted(Persisted, "performance")
        /\ ~Granted(Persisted, "analytics")
        /\ console[t] = <<LoaderLine("performance")>>

\* C3: the signal code is a function of the status: every persisted decision
\* has one of the three statuses and the gcs code signalFor gives it, and
\* every cookie_consent_update event (pushed by a click or by a page load
\* that applies the persisted decision) carries that code.
C3_SignalFollowsStatus ==
    LET d == PersistedDecision IN
    /\ d.t = "obj" =>
          /\ Get(d, "status").t = "str"
          /\ Get(d, "status").v \in Statuses
          /\ StrictEq(Get(d, "gcs"), JStr(signalFor(Get(d, "status").v)))
    /\ \A t \in Tabs :
          (last.tab = t /\ last.op \in DecidedOps /\ page[t] = "ready"
              /\ d.t = "obj") =>
                /\ Events(dataLayer[t]) # <<>>
                /\ Events(dataLayer[t])[Len(Events(dataLayer[t]))].gcs
                      = signalFor(Get(d, "status").v)

\* C3 witness: a page load has applied a persisted custom decision and
\* pushed G101.
C3_Witness ==
    \E t \in Tabs :
        /\ last = [op |-> "load", tab |-> t]
        /\ StrictEq(Get(PersistedDecision, "status"), JStr("custom"))
        /\ Events(dataLayer[t]) # <<>>
        /\ Events(dataLayer[t])[1].gcs = "G101"

\* the consent maps a queue carries: the arguments of the consent calls and
\* the consent_mode of the events
ConsentMaps(dl) ==
    {dl[i].args[3] : i \in {k \in 1..Len(dl) : dl[k].kind = "gtag" /\ dl[k].args[1] = "consent"}}
    \cup {dl[i].consent_mode : i \in {k \in 1..Len(dl) : IsEvent(dl[k])}}

\* C4: functional is always granted: its input stays checked whatever the
\* user does, every persisted decision has categories.functional = true, and
\* every consent record of every queue (default or update) grants
\* functionality_storage and security_storage.
C4_FunctionalAlwaysGranted ==
    /\ \A t \in Tabs : checked[t]["functional"]
    /\ LET d == PersistedDecision IN
       d.t = "obj" => StrictEq(Get(Get(d, "categories"), "functional"), JBool(TRUE))
    /\ \A t \in Tabs : \A m \in ConsentMaps(dataLayer[t]) :
          m.functionality_storage = "granted" /\ m.security_storage = "granted"

\* C4 witness: after a toggle, a Save persisted a decision that grants no
\* optional category, and the queue holds the default and the update.
C4_Witness ==
    \E t \in Tabs :
        /\ last = [op |-> "save", tab |-> t]
        /\ toggles > 0
        /\ \A c \in NonEssential : ~Granted(Persisted, c)
        /\ Granted(Persisted, "functional")
        /\ Len(dataLayer[t]) = 3

\* C5: a cookie_consent value that is not a decision is treated as no
\* decision: the page load completes with the click handlers wired and the
\* banner shown.
C5_MalformedTreatedAsNoDecision ==
    \A t \in Tabs :
        (last = [op |-> "load", tab |-> t]
            /\ ~Falsy(PersistedText) /\ ~WellFormed(PersistedText)) =>
                page[t] = "ready" /\ Visible(banner[t])

\* the cookies of jar j that are named cookie_consent
ConsentCookies(j) == SelectSeq(j, LAMBDA c : c.name = CookieName)

\* C6: round trip: once a decision click has written a decision, reading
\* the cookie back gives a decision identical to the object written (status,
\* gcs, categories, timestamp), and a page load that follows finds it,
\* applies it and does not show the banner.
C6_RoundTrip ==
    /\ written.t = "obj" => PersistedDecision = written
    /\ \A t \in Tabs :
          (last = [op |-> "load", tab |-> t] /\ written.t = "obj") =>
              /\ page[t] = "ready"
              /\ ~Visible(banner[t])
              /\ Len(Events(dataLayer[t])) = 1
              /\ Events(dataLayer[t])[1].consent_mode = ResolvedMap(written)

\* C6 witness: a tab has loaded after a Save at tick 1 that granted
\* advertising only.
C6_Witness ==
    \E t \in Tabs :
        /\ last = [op |-> "load", tab |-> t]
        /\ written.t = "obj"
        /\ StrictEq(Get(written, "status"), JStr("custom"))
        /\ StrictEq(Get(written, "timestamp"), JNum(1))
        /\ Granted(written, "advertising")
        /\ ~Granted(written, "analytics")

\* C7: on page load the banner becomes visible exactly when no decision is
\* persisted; a persisted decision is applied silently before any click:
\* the banner stays hidden, one consent update derived from the persisted
\* categories and status is pushed, and the loaders of the categories it
\* grants are invoked.
C7_BannerIffNoDecision ==
    \A t \in Tabs :
        last = [op |-> "load", tab |-> t] =>
            LET d == PersistedDecision IN
            /\ Visible(banner[t]) <=> d.t # "obj"
            /\ d.t = "obj" =>
                  /\ page[t] = "ready"
                  /\ Len(Events(dataLayer[t])) = 1
                  /\ Events(dataLayer[t])[1].consent_mode = ResolvedMap(d)
                  /\ Events(dataLayer[t])[1].gcs = gcsSignalOf(d)
                  /\ Range(console[t]) =
                        {LoaderLine(c) : c \in {x \in LoaderCategories : Granted(d, x)}}

\* the categories the decision of operation op in tab t grants, as the
\* specification states them: all for Accept All, none but functional for
\* Reject All, the checked inputs for Save
ExpectedGrant(op, t, c) ==
    IF c = "functional" \/ op \in AcceptOps THEN TRUE
    ELSE IF op \in RejectOps THEN FALSE
    ELSE IF c = "uncategorized" /\ ~HasUncategorizedInput(detected[t]) THEN FALSE
    ELSE checked[t][c]

\* C8: the persisted decision is overwritten, never merged: right after a
\* decision click the jar holds exactly one cookie_consent cookie and its
\* decision is the one this click built (status, timestamp and every
\* category as the click sets it, whatever an earlier decision granted);
\* before the first decision click the script has stored no cookie.
C8_OverwrittenNeverMerged ==
    /\ written.t = "undefined" =>
          /\ PersistedDecision.t # "obj"
          /\ \A i \in 1..Len(jar) : jar[i].expires = Session
    /\ written.t = "obj" => Len(ConsentCookies(jar)) = 1
    /\ \A t \in Tabs :
          (last.tab = t /\ last.op \in DecisionOps) =>
              LET d == PersistedDecision IN
              /\ d.t = "obj"
              /\ StrictEq(Get(d, "status"), JStr(StatusOfOp(last.op)))
              /\ StrictEq(Get(d, "timestamp"), JNum(now))
              /\ \A c \in CategorySet :
                    StrictEq(Get(Get(d, "categories"), c),
                             JBool(ExpectedGrant(last.op, t, c)))

\* C8 witness: tab A accepted everything (its analytics loader ran), then
\* tab B rejected: the persisted decision grants no optional category.
C8_Witness ==
    /\ last.tab = "tabB" /\ last.op \in RejectOps
    /\ LoaderLine("analytics") \in Range(console["tabA"])
    /\ Events(dataLayer["tabA"])[1].gcs = "G111"
    /\ \A c \in NonEssential : ~Granted(Persisted, c)

\* C9: a click on Reject All, in the banner or in the settings panel,
\* persists status rejected with functional true and analytics, performance,
\* advertising and uncategorized false, hides the surface it was clicked on
\* and invokes no loader: the console and window.fbq are unchanged and the
\* queue grows by the consent update and its event only.
C9_RejectAll ==
    [][\A t \in Tabs :
        (last'.tab = t /\ last'.op \in RejectOps) =>
            LET d == written' IN
            /\ PersistsNow(d)
            /\ StrictEq(Get(d, "status"), JStr("rejected"))
            /\ StrictEq(Get(Get(d, "categories"), "functional"), JBool(TRUE))
            /\ \A c \in NonEssential :
                  StrictEq(Get(Get(d, "categories"), c), JBool(FALSE))
            /\ last'.op = "rejectAll" => (Visible(banner[t]) /\ ~Visible(banner'[t]))
            /\ last'.op = "rejectAllSettings" => (Visible(modal[t]) /\ ~Visible(modal'[t]))
            /\ console'[t] = console[t]
            /\ fbq'[t] = fbq[t]
            /\ Len(dataLayer'[t]) = Len(dataLayer[t]) + 2
    ]_vars

\* C9 witness: Reject All was clicked in a settings panel whose inputs were
\* all checked from a persisted Accept All.
C9_Witness ==
    \E t \in Tabs :
        /\ last = [op |-> "rejectAllSettings", tab |-> t]
        /\ \A c \in {"analytics", "performance", "advertising"} : checked[t][c]
        /\ ~Granted(Persisted, "analytics")
        /\ console[t] = <<>>

\* C10: a click on Accept All, in the banner or in the settings panel,
\* persists status accepted with functional, analytics, performance,
\* advertising and uncategorized all true, whatever the inputs show and
\* whatever was persisted before.
C10_AcceptAll ==
    \A t \in Tabs :
        (last.tab = t /\ last.op \in AcceptOps) =>
            LET d == PersistedDecision IN
            /\ d.t = "obj"
            /\ StrictEq(Get(d, "status"), JStr("accepted"))
            /\ \A c \in CategorySet :
                  StrictEq(Get(Get(d, "categories"), c), JBool(TRUE))

\* C10 witness: Accept All was clicked in the settings panel of a tab whose
\* inputs are unchecked, after the other tab had rejected everything.
C10_Witness ==
    \E t \in Tabs : \E u \in Tabs \ {t} :
        /\ last = [op |-> "acceptAllSettings", tab |-> t]
        /\ \A c \in NonEssential : ~checked[t][c]
        /\ Len(Events(dataLayer[u])) = 1
        /\ Events(dataLayer[u])[1].gcs = "G100"
        /\ banner[u] = "none"

\* number of occurrences of x in sequence s
Count(s, x) == Cardinality({i \in 1..Len(s) : s[i] = x})

\* the categories object of the scenario "analytics on, the others off"
AnalyticsOnly ==
    JObj(<< <<"functional", JBool(TRUE)>>, <<"analytics", JBool(TRUE)>>,
            <<"performance", JBool(FALSE)>>, <<"advertising", JBool(FALSE)>>,
            <<"uncategorized", JBool(FALSE)>> >>)

ToggleInputs(t) ==
    LoaderCategories
    \cup (IF HasUncategorizedInput(detected[t]) THEN {"uncategorized"} ELSE {})

\* C12: every click on Customize hides the banner, shows the settings panel
\* and leaves the category inputs showing the categories of the persisted
\* decision when one exists, and all unchecked when none exists; this
\* includes a reopening after the user flipped inputs and closed the panel
\* without saving.
C12_CustomizePrepopulates ==
    [][\A t \in Tabs :
        (last'.tab = t /\ last'.op = "customize") =>
            /\ ~Visible(banner'[t])
            /\ Visible(modal'[t])
            /\ \A text \in {PersistedTextIn(jar', now')} :
               \A d \in {DecisionOfText(text)} :
                  \A c \in ToggleInputs(t) :
                     checked'[t][c] = (d.t = "obj" /\ Granted(d, c))
    ]_vars

\* C13: a click on the close control of the settings panel records no
\* decision: the cookie jar (and so the persisted cookie_consent state), the
\* dataLayer queue and the loader invocations are unchanged, as are the
\* inputs and window.fbq; the only effect is that the settings panel is
\* hidden and the banner is shown again.
C13_CloseRecordsNothing ==
    [][\A t \in Tabs :
        (last'.tab = t /\ last'.op = "close") =>
            /\ Visible(modal[t]) /\ ~Visible(modal'[t])
            /\ Visible(banner'[t])
            /\ jar' = jar
            /\ \A text \in {PersistedTextIn(jar', now')} : text = PersistedText
            /\ written' = written
            /\ dataLayer' = dataLayer
            /\ console' = console
            /\ fbq' = fbq
            /\ checked' = checked
            /\ \A u \in Tabs \ {t} : banner'[u] = banner[u] /\ modal'[u] = modal[u]
    ]_vars

\* C13 witness: the panel of a tab has been closed after a toggle while the
\* other tab's decision is persisted; the banner is back and the tab's queue
\* holds the default record only.
C13_Witness ==
    \E t \in Tabs :
        /\ last = [op |-> "close", tab |-> t]
        /\ toggles = 1
        /\ Visible(banner[t]) /\ ~Visible(modal[t])
        /\ PersistedDecision.t = "obj"
        /\ Len(dataLayer[t]) = 1
        /\ console[t] = <<>>

\* the positions of the consent records (default or update) of a queue
ConsentCalls(dl) ==
    {i \in 1..Len(dl) : dl[i].kind = "gtag" /\ dl[i].args[1] = "consent"}

\* the keys a consent record denies and grants before any decision
DeniedByDefault ==
    {"ad_storage", "analytics_storage", "ad_user_data", "ad_personalization",
     "personalization_storage"}

GrantedByDefault == {"functionality_storage", "security_storage"}

\* C14: in the queue of every page that has run the script, the first
\* consent record is the default record, which denies ad_storage,
\* analytics_storage, ad_user_data, ad_personalization and
\* personalization_storage and grants functionality_storage and
\* security_storage; it is the only default record and precedes every
\* consent update; while no decision exists (none persisted, no decision
\* click made) no queue holds a consent update.
C14_DefaultFirst ==
    /\ \A t \in Tabs :
          page[t] # "closed" =>
              LET dl == dataLayer[t]
                  first == CHOOSE i \in ConsentCalls(dl) :
                              \A k \in ConsentCalls(dl) : i <= k
              IN /\ ConsentCalls(dl) # {}
                 /\ IsConsentCall(dl[first], "default")
                 /\ DOMAIN dl[first].args[3] = DeniedByDefault \cup GrantedByDefault
                 /\ \A k \in DeniedByDefault : dl[first].args[3][k] = "denied"
                 /\ \A k \in GrantedByDefault : dl[first].args[3][k] = "granted"
                 /\ \A i \in ConsentCalls(dl) \ {first} : IsConsentCall(dl[i], "update")
    /\ (written.t = "undefined" /\ PersistedDecision.t # "obj") =>
          \A t \in Tabs : \A i \in ConsentCalls(dataLayer[t]) :
              ~IsConsentCall(dataLayer[t][i], "update")

\* C14 witness: one tab has saved a decision, so its queue holds the default
\* record followed by the update, while the other tab, loaded before that
\* decision, holds the default record only.
C14_Witness ==
    \E t \in Tabs : \E u \in Tabs \ {t} :
        /\ last = [op |-> "save", tab |-> t]
        /\ IsConsentCall(dataLayer[t][1], "default")
        /\ IsConsentCall(dataLayer[t][2], "update")
        /\ page[u] = "ready" /\ Visible(banner[u])
        /\ Len(dataLayer[u]) = 1

\* two decisions have the same content: status and categories
SameContent(a, b) ==
    /\ a.t = "obj" /\ b.t = "obj"
    /\ StrictEq(Get(a, "status"), Get(b, "status"))
    /\ Get(a, "categories") = Get(b, "categories")

LastEvent(dl) == Events(dl)[Len(Events(dl))]

\* C15: applying the same decision twice gives the same outcome: when a
\* decision click in one page instance is followed by a step of the other
\* page instance that applies a decision of the same content (an identical
\* click, or a page load that applies the persisted decision), the second
\* application pushes the same consent map and the same signal code and
\* invokes the same loaders as the first.
C15_SameDecisionSameOutcome ==
    [][\A t \in Tabs : \A u \in Tabs \ {t} :
        (last.tab = u /\ last.op \in DecisionOps) =>
            \A d \in {StepDecision(t)} :
                SameContent(d, written) =>
                    /\ Events(dataLayer'[t]) # <<>>
                    /\ LastEvent(dataLayer'[t]).consent_mode
                          = LastEvent(dataLayer[u]).consent_mode
                    /\ LastEvent(dataLayer'[t]).gcs = LastEvent(dataLayer[u]).gcs
                    /\ {dataLayer'[t][i].args[3] : i \in ConsentCalls(dataLayer'[t])}
                          = {dataLayer[u][i].args[3] : i \in ConsentCalls(dataLayer[u])}
                    /\ NewLoaderLines(t) = console[u]
    ]_vars

\* C15 witness: a page load at tick 1 has applied the Accept All decision the
\* other tab made at tick 0, and both consoles hold the same three loader
\* lines.
C15_Witness ==
    \E t \in Tabs : \E u \in Tabs \ {t} :
        /\ last = [op |-> "load", tab |-> t]
        /\ now = 1
        /\ StrictEq(Get(written, "timestamp"), JNum(0))
        /\ StrictEq(Get(written, "status"), JStr("accepted"))
        /\ Len(console[t]) = 3
        /\ console[t] = console[u]
        /\ LastEvent(dataLayer[t]).gcs = "G111"

\* a decision has been recorded in the current page load of tab t, by a
\* click or by the load applying the persisted cookie
Decided(t) == page[t] = "ready" /\ Events(dataLayer[t]) # <<>>

\* some control is within the user's reach: a page instance shows the banner
\* or the settings panel, or no cookie_consent value is stored, so that a
\* page load would show the banner
ControlInReachIn(pg, bn, md, j, clock) ==
    \/ \E u \in Tabs : pg[u] = "ready" /\ (Visible(bn[u]) \/ Visible(md[u]))
    \/ Falsy(PersistedTextIn(j, clock))

ControlInReach == ControlInReachIn(page, banner, modal, jar, now)

\* once no control is in reach none comes back, and no step opens the
\* settings panel or records a decision
OutOfReachForGood ==
    [][~ControlInReach =>
          /\ ~ControlInReachIn(page', banner', modal', jar', now')
          /\ last'.op \notin DecisionOps \cup {"customize"}]_vars

\* C16: the user can reopen the settings and resubmit at will: in every
\* reachable state in which a page instance has recorded a decision, a
\* control that starts a sequence of user actions ending in a new decision
\* is in reach.
C16_CanResubmit ==
    \A t \in Tabs : Decided(t) => ControlInReach

(* ----------------------- scanning foreign cookies --------------------- *)
\* names of cookies other scripts of the site may have set
GaName == <<"_", "g", "a">>

GatName == <<"_", "g", "a", "t">>

WpSettingsName == <<"w", "p", "-", "s", "e", "t", "t", "i", "n", "g", "s">>

WpTestName == <<"w", "o", "r", "d", "p", "r", "e", "s", "s", "_", "t", "e", "s", "t", "_", "c", "o", "o", "k", "i", "e">>

TestCookieName == <<"t", "e", "s", "t", "_", "c", "o", "o", "k", "i", "e">>

UtmaFrName == <<"_", "_", "u", "t", "m", "a", "f", "r">>

SidName == <<"s", "i", "d">>

PhpName == <<"P", "H", "P", "S", "E", "S", "S", "I", "D">>

PhpLowerName == <<"p", "h", "p", "s", "e", "s", "s", "i", "d">>

\* the cookies a scanned page may find: no pattern, one pattern, several
\* patterns of one category, several patterns of different categories
ScanCookies ==
    {Cookie(GaName, <<"123">>), Cookie(WpSettingsName, <<"abc">>)}
    \cup {Cookie(n, <<"v">>) :
             n \in {GatName, WpTestName, TestCookieName, UtmaFrName, SidName,
                    PhpName, PhpLowerName}}

\* the jar holds up to MaxCookies such cookies, a name possibly twice (set
\* for two paths), and no cookie_consent
InitScan ==
    /\ jar \in UNION {[1..n -> ScanCookies] : n \in 0..MaxCookies}
    /\ now = 0
    /\ loads = 0
    /\ page = [t \in Tabs |-> "closed"]
    /\ dataLayer = [t \in Tabs |-> <<>>]
    /\ banner = [t \in Tabs |-> ""]
    /\ modal = [t \in Tabs |-> ""]
    /\ checked = [t \in Tabs |-> RenderedInputs]
    /\ detected = [t \in Tabs |-> EmptySnapshot]
    /\ console = [t \in Tabs |-> <<>>]
    /\ fbq = [t \in Tabs |-> [defined |-> FALSE, queue |-> <<>>]]
    /\ toggles = 0
    /\ written = Undefined
    /\ last = [op |-> "init", tab |-> ""]

\* page loads only: each runs scanAndCategorizeCookies on the jar
NextScan ==
    \E t \in Tabs :
        \/ Navigate(t)
        \/ DOMContentLoaded(t)

SpecScan == InitScan /\ [][NextScan]_vars

\* the positions of the table's patterns that are substrings of the name
Matching(name) ==
    {i \in 1..Len(cookieDatabase) : Includes(name, cookieDatabase[i][1])}

\* the category the specification gives a cookie name
ExpectedCategory(name) ==
    IF Matching(name) = {} THEN "uncategorized"
    ELSE cookieDatabase[CHOOSE i \in Matching(name) :
                            \A k \in Matching(name) : i <= k][2]

\* the names of the cookies document.cookie shows
LiveNames == {Live(jar, now)[i].name : i \in 1..Len(Live(jar, now))}

\* C17: every cookie name is filed under the category of the first pattern,
\* in the table's insertion order, that is a substring of the name (the
\* first matching pattern wins when several match), and under uncategorized
\* when no pattern is a substring of it.
C17_FirstPatternWins ==
    \A t \in Tabs :
        last = [op |-> "load", tab |-> t] =>
            /\ \A c \in CategorySet : \A i \in 1..Len(detected[t][c]) :
                  ExpectedCategory(detected[t][c][i]) = c
            /\ \A n \in LiveNames :
                  n \in Range(detected[t][ExpectedCategory(n)])

\* C17 witness: the scan met a name with patterns of two categories
\* (wordpress_ before test_cookie), a name whose later substring is the
\* earlier pattern (fr before __utma), and none of the other categories.
C17_Witness ==
    \E t \in Tabs :
        /\ last = [op |-> "load", tab |-> t]
        /\ detected[t]["functional"] = <<WpTestName>>
        /\ detected[t]["advertising"] = <<UtmaFrName>>
        /\ Cardinality(Matching(WpTestName)) > 1
        /\ Cardinality(Matching(UtmaFrName)) > 1

\* the names of the entries of the raw cookie string, in its order
EntryNames == [i \in 1..Len(Live(jar, now)) |-> Live(jar, now)[i].name]

\* the jar of the scenario: document.cookie is "_ga=123; wp-settings=abc"
ScenarioJar == <<Cookie(GaName, <<"123">>), Cookie(WpSettingsName, <<"abc">>)>>

\* C18: the scan files every entry of the raw cookie string that has a
\* non-empty name under exactly one category, without deduplication and in
\* the order of the raw string: the sequence of a category is the
\* subsequence of the entry names that belong to it. An entry with an empty
\* name (the only entry of an empty cookie string) is skipped. For the raw
\* string "_ga=123; wp-settings=abc" analytics holds _ga only, functional
\* holds wp-settings only and the other categories are empty.
C18_ScanFilesEveryEntry ==
    \A t \in Tabs :
        last = [op |-> "load", tab |-> t] =>
            /\ \A c \in CategorySet :
                  detected[t][c] =
                      SelectSeq(EntryNames,
                                LAMBDA n : n # <<>> /\ ExpectedCategory(n) = c)
            /\ DocumentCookie(jar, now) = <<>> => detected[t] = EmptySnapshot
            /\ jar = ScenarioJar =>
                  /\ DocumentCookie(jar, now)
                        = <<"_", "g", "a", "=", "123", ";", " ">>
                          \o WpSettingsName \o <<"=", "abc">>
                  /\ detected[t] = [EmptySnapshot EXCEPT
                                        !["analytics"] = <<GaName>>,
                                        !["functional"] = <<WpSettingsName>>]

\* C18 witness: a page load has scanned the scenario's raw string.
C18_Witness ==
    \E t \in Tabs :
        /\ last = [op |-> "load", tab |-> t]
        /\ jar = ScenarioJar
        /\ detected[t]["analytics"] = <<GaName>>
        /\ detected[t]["functional"] = <<WpSettingsName>>

\* the category that decides a key of the five-key map
CategoryOfKey(k) ==
    CASE k \in {"ad_storage", "ad_user_data", "ad_personalization"} -> "advertising"
      [] k = "analytics_storage" -> "analytics"
      [] k = "personalization_storage" -> "performance"

\* C19: in every consent update pushed to the queue (by a decision click or
\* by a page load that applies the persisted decision) the five-key map
\* follows the categories of the decision being applied: ad_storage,
\* ad_user_data and ad_personalization are granted iff advertising is,
\* analytics_storage iff analytics is, personalization_storage iff
\* performance is; no key follows uncategorized.
C19_MapFollowsCategories ==
    [][\A t \in Tabs :
        \A d \in {StepDecision(t)} :
            d.t = "obj" =>
                LET update == dataLayer'[t][Len(dataLayer[t]) + 1] IN
                /\ Len(dataLayer'[t]) > Len(dataLayer[t])
                /\ IsConsentCall(update, "update")
                /\ Cardinality(ConsentCalls(dataLayer'[t]))
                      = Cardinality(ConsentCalls(dataLayer[t])) + 1
                /\ DeniedByDefault \subseteq DOMAIN update.args[3]
                /\ \A k \in DeniedByDefault :
                      update.args[3][k] =
                          IF StrictEq(Get(Get(d, "categories"), CategoryOfKey(k)), JBool(TRUE))
                          THEN "granted" ELSE "denied"
    ]_vars

\* C19 witness: a Save that granted uncategorized and nothing else optional
\* has pushed an update that denies all five keys.
C19_Witness ==
    \E t \in Tabs :
        /\ last = [op |-> "save", tab |-> t]
        /\ StrictEq(Get(Get(written, "categories"), "uncategorized"), JBool(TRUE))
        /\ IsConsentCall(dataLayer[t][2], "update")
        /\ \A k \in DeniedByDefault : dataLayer[t][2].args[3][k] = "denied"

\* C20: the banner and the settings panel of a page are never visible at the
\* same time: both are hidden until the page has loaded, after any sequence
\* of clicks on visible controls at most one of them is displayed, and right
\* after a decision click both are hidden.
C20_NeverBothVisible ==
    \A t \in Tabs :
        /\ ~(Visible(banner[t]) /\ Visible(modal[t]))
        /\ page[t] \in {"closed", "loading"} =>
              (~Visible(banner[t]) /\ ~Visible(modal[t]))
        /\ (last.tab = t /\ last.op \in DecisionOps) =>
              (~Visible(banner[t]) /\ ~Visible(modal[t]))

\* C20 witness: after Customize, a toggle and a Save both surfaces of the
\* tab are hidden, while the other tab shows its banner again after a close.
C20_Witness ==
    \E t \in Tabs : \E u \in Tabs \ {t} :
        /\ last = [op |-> "save", tab |-> t]
        /\ toggles = 1
        /\ banner[t] = "none" /\ modal[t] = "none"
        /\ banner[u] = "block" /\ modal[u] = "none"

====
